---- MODULE Spec2Model ----
(***************************************************************************)
(* SlidingPuzzle: the grid, the blank-tile movement, the shuffle and the   *)
(* phase loop of GameEngine.run, as a state machine.                       *)
(*                                                                         *)
(* Tiles are numbered 0..N*N-1; tile 0 is the blank block, tile k > 0 is   *)
(* the value block labelled k.  Tiles have no __eq__, so list.index and    *)
(* list equality compare identities: here, the numbers.                    *)
(*                                                                         *)
(* Spec is the cooperative schedule of main(): GameEngine.run and          *)
(* DrawingEngine.draw are two asyncio tasks of one thread, so a stretch of *)
(* run() between two awaits is one step, and a key callback is delivered   *)
(* only while run() is suspended in asyncio.sleep.  The interrupt signal   *)
(* (mapped to handle_escape) may arrive at any point.                      *)
(*                                                                         *)
(* SpecGrid is the Grid class on its own, SpecClock is Spec with time      *)
(* passing.  SpecLatch and SpecTk are the session on the windowed surface, *)
(* whose callbacks are called from the thread of the Tk main loop: there   *)
(* run(), the polls of the latches, _move_blank_block and Grid.swap are    *)
(* followed statement by statement.  SpecCurses is Spec with the round of  *)
(* draw() on the curses surface, whose getch() holds the event loop until  *)
(* a key arrives.                                                          *)
(***************************************************************************)
EXTENDS Integers, Sequences, FiniteSets, TLC

\* Bounds of the model: the board side is 2..MaxN; _shuffle_board makes
\* ShuffleSelections selections where the program makes range(2000); at most
\* MaxPlayerMoves directional key callbacks are delivered; the harness of the
\* Grid class applies at most MaxSwaps swaps.
MaxN == 3
ShuffleSelections == 3
MaxPlayerMoves == 2
MaxSwaps == 2

\* The clock: time.time() counts in ticks, TicksPerSecond to the second, and is
\* followed up to MaxClock ticks.
TicksPerSecond == 2
MaxClock == 3

\* The session on the windowed surface is followed statement by statement:
\* there _shuffle_board makes TkShuffleSelections selections and at most
\* TkCallbackMoves directional key callbacks are delivered.
TkShuffleSelections == 1
TkCallbackMoves == 1

\* Program constants of CursesGameDataBuilder.get.
ScreenWidth == 50
ScreenHeight == 40

VARIABLES
    size,            \* GameEngine.size and Grid.grid_width
    grid,            \* Grid.grid: index -> tile
    position,        \* Drawable.position of every tile
    correct_order,   \* GameEngine.correct_order
    enter_pressed,   \* GameEngine.enter_pressed
    escape_pressed,  \* GameEngine.escape_pressed
    allow_moving,    \* GameEngine._allow_moving
    text_box,        \* game_data.text_box: its text and its visibility
    pc,              \* where run() stands
    shuffle_i,       \* the loop variable of _shuffle_board
    raised,          \* an exception left a handler or run()
    shuffle_log,     \* history: the selections of the shuffle that changed the grid
    moves,           \* history: number of directional key callbacks (of swaps, for
                     \* the harness of the Grid class) delivered
    pressed_in,      \* history: the phase in which each pending latch was last set
    clock,           \* what time.time() returns now, in ticks
    game_started,    \* run(): the local game_started, -1 while unbound
    game_solved,     \* run(): the local game_solved, -1 while unbound
    poll_ret,        \* _enter_pressed/_escape_pressed: what the call in progress read
    shuffle_frame,   \* the call of _move_blank_block in progress in run()'s thread
    callback_frame,  \* the call of _move_blank_block in progress in the surface's thread
    draw_pc,         \* where DrawingEngine.draw() of the curses surface stands
    last             \* history: the step taken last, with the state it started from

vars == <<size, grid, position, correct_order, enter_pressed, escape_pressed,
          allow_moving, text_box, pc, shuffle_i, raised, shuffle_log, moves,
          pressed_in, clock, game_started, game_solved, poll_ret, shuffle_frame,
          callback_frame, draw_pc, last>>

----------------------------------------------------------------------------
\* utils.py

Direction == {"LEFT", "RIGHT", "UP", "DOWN"}

Position(x, y) == [x |-> x, y |-> y]

PositionAdd(p, q) == Position(p.x + q.x, p.y + q.y)

----------------------------------------------------------------------------
\* Python lists

\* list.index: the first index holding the object, -1 standing for ValueError.
ListIndex(g, n, obj) ==
    IF \E k \in 0..(n - 1) : g[k] = obj
    THEN CHOOSE k \in 0..(n - 1) : g[k] = obj /\ \A j \in 0..(k - 1) : g[j] # obj
    ELSE -1

\* The index a subscript selects: a negative one counts from the end; -1 stands
\* for IndexError.
Subscript(k, n) ==
    IF k >= 0 /\ k < n THEN k
    ELSE IF k < 0 /\ k + n >= 0 THEN k + n
    ELSE -1

----------------------------------------------------------------------------
\* grid.py

to_index(w, p) == p.y * w + p.x

\* Whether Grid.get_position raises: list.index finds no such object.
get_position_raises(g, w, obj) == ListIndex(g, w * w, obj) < 0

\* Mutant of get_position: the quotient and the remainder change places.
get_position_transposed(g, w, obj) ==
    LET n == w * w
        index == ListIndex(g, n, obj)
    IN  Position(index \div (n \div w), index % w)

\* Position(index % width, int(index / (len / width))), where it does not raise.
get_position(g, w, obj) ==
    LET n == w * w
        index == ListIndex(g, n, obj)
    IN  Position(index % w, index \div (n \div w))

\* Grid.__call__
lookup(g, w, p) == g[Subscript(to_index(w, p), w * w)]

\* Mutant of swap: the second list assignment reads the cell already overwritten
\* (no temporary).
swap_without_tmp(g, pos, w, lhs, rhs) ==
    LET n == w * w
        l == Subscript(to_index(w, lhs), n)
        r == Subscript(to_index(w, rhs), n)
    IN  IF l < 0 \/ r < 0 THEN [grid |-> g, position |-> pos, raised |-> TRUE]
        ELSE LET g1 == [g EXCEPT ![l] = g[r]]
                 g2 == [g1 EXCEPT ![r] = g1[l]]
                 tmpp == pos[g2[l]]
                 p1 == [pos EXCEPT ![g2[l]] = pos[g2[r]]]
                 p2 == [p1 EXCEPT ![g2[r]] = tmpp]
             IN  [grid |-> g2, position |-> p2, raised |-> FALSE]

\* Mutant of swap: the exchange of the position attributes has no temporary, so
\* the second attribute assignment reads the attribute already overwritten.
swap_attributes_without_tmp(g, pos, w, lhs, rhs) ==
    LET n == w * w
        l == Subscript(to_index(w, lhs), n)
        r == Subscript(to_index(w, rhs), n)
    IN  IF l < 0 \/ r < 0 THEN [grid |-> g, position |-> pos, raised |-> TRUE]
        ELSE LET tmp == g[l]
                 g1 == [g EXCEPT ![l] = g[r]]
                 g2 == [g1 EXCEPT ![r] = tmp]
                 p1 == [pos EXCEPT ![g2[l]] = pos[g2[r]]]
                 p2 == [p1 EXCEPT ![g2[r]] = p1[g2[l]]]
             IN  [grid |-> g2, position |-> p2, raised |-> FALSE]

\* Grid.swap: the three assignments on the list, then the three on the position
\* attributes of the tiles now at lhs and rhs.
swap(g, pos, w, lhs, rhs) ==
    LET n == w * w
        l == Subscript(to_index(w, lhs), n)
        r == Subscript(to_index(w, rhs), n)
    IN  IF l < 0 \/ r < 0 THEN [grid |-> g, position |-> pos, raised |-> TRUE]
        ELSE LET tmp == g[l]
                 g1 == [g EXCEPT ![l] = g[r]]
                 g2 == [g1 EXCEPT ![r] = tmp]
                 tmpp == pos[g2[l]]
                 p1 == [pos EXCEPT ![g2[l]] = pos[g2[r]]]
                 p2 == [p1 EXCEPT ![g2[r]] = tmpp]
             IN  [grid |-> g2, position |-> p2, raised |-> FALSE]

----------------------------------------------------------------------------
\* game_data_builders.py

block_width(n) == ScreenWidth \div n

block_height(n) == ScreenHeight \div n

\* The position attribute each tile is built with: the blank block takes the
\* default Position(0, 0), value block k the pixel position of cell k.
InitialPosition(n) ==
    [t \in 0..(n * n - 1) |->
        IF t = 0 THEN Position(0, 0)
        ELSE Position((t % n) * block_width(n), (t \div n) * block_height(n))]

\* Mutant of the list handed to Grid: game_data.blocks + [game_data.blank_block].
InitialGrid_blank_last(n) == [k \in 0..(n * n - 1) |-> (k + 1) % (n * n)]

\* [game_data.blank_block] + game_data.blocks
InitialGrid(n) == [k \in 0..(n * n - 1) |-> k]

----------------------------------------------------------------------------
\* game_engine.py

blank_block == 0

\* Mutant of the table direction_to_offset: the offsets of the bounds check
\* follow the names of the directions, those of the four branches do not.
direction_to_offset_by_name(d) ==
    CASE d = "DOWN"  -> Position(0, 1)
      [] d = "UP"    -> Position(0, -1)
      [] d = "LEFT"  -> Position(-1, 0)
      [] d = "RIGHT" -> Position(1, 0)

direction_to_offset(d) ==
    CASE d = "DOWN"  -> Position(0, -1)
      [] d = "UP"    -> Position(0, 1)
      [] d = "LEFT"  -> Position(1, 0)
      [] d = "RIGHT" -> Position(-1, 0)

\* Mutant of the four branches of _move_blank_block: the offsets follow the
\* names of the directions.
swap_offset_by_name(d) ==
    CASE d = "DOWN"  -> Position(0, 1)
      [] d = "UP"    -> Position(0, -1)
      [] d = "LEFT"  -> Position(-1, 0)
      [] d = "RIGHT" -> Position(1, 0)

\* Mutant of the four branches of _move_blank_block: the RIGHT branch carries
\* the offset of the LEFT branch.
swap_offset_right_as_left(d) ==
    CASE d = "DOWN"  -> Position(0, -1)
      [] d = "UP"    -> Position(0, 1)
      [] d = "LEFT"  -> Position(1, 0)
      [] d = "RIGHT" -> Position(1, 0)

\* The offsets written out in the four branches of _move_blank_block.
swap_offset(d) ==
    CASE d = "DOWN"  -> Position(0, -1)
      [] d = "UP"    -> Position(0, 1)
      [] d = "LEFT"  -> Position(1, 0)
      [] d = "RIGHT" -> Position(-1, 0)

\* Mutant of _is_valid_position: the upper bound on x is inclusive.
is_valid_position_x_inclusive(n, p) ==
    p.x >= 0 /\ p.x <= n /\ p.y >= 0 /\ p.y < n

\* Mutant of _is_valid_position: the lower bound on y is missing.
is_valid_position_no_lower_y(n, p) ==
    p.x >= 0 /\ p.x < n /\ p.y < n

is_valid_position(n, p) ==
    p.x >= 0 /\ p.x < n /\ p.y >= 0 /\ p.y < n

\* Mutant of __init__: correct_order = self.grid.grid, the live list itself, so
\* an assignment to a cell of grid.grid shows in correct_order.
correct_order_aliased(co, g) == g

\* self.correct_order = self.grid.grid[:] is a list of its own: what it holds
\* once the cells of grid.grid have been assigned and grid.grid holds g.
correct_order_after_write(co, g) == co

\* Mutant of _is_solved: correct_order is the live list itself (no [:] copy), so
\* the comparison is of the list with itself.
is_solved_aliased(co, g) == g = g

is_solved(co, g) == co = g

\* Mutant of _move_blank_block: the check of _allow_moving is missing.
move_blank_block_ungated(g, pos, w, allow, d) ==
    LET same == [grid |-> g, position |-> pos, raised |-> FALSE]
        fail == [grid |-> g, position |-> pos, raised |-> TRUE]
        bp == get_position(g, w, blank_block)
    IN  IF get_position_raises(g, w, blank_block) THEN fail
        ELSE IF ~is_valid_position(w, PositionAdd(bp, direction_to_offset(d))) THEN same
        ELSE swap(g, pos, w, bp, PositionAdd(bp, swap_offset(d)))

\* _move_blank_block as a function of the state it reads:
\* the outcome is the grid, the position attributes and whether it raised.
move_blank_block(g, pos, w, allow, d) ==
    LET same == [grid |-> g, position |-> pos, raised |-> FALSE]
        fail == [grid |-> g, position |-> pos, raised |-> TRUE]
        bp == get_position(g, w, blank_block)
    IN  IF get_position_raises(g, w, blank_block) THEN fail
        ELSE IF ~is_valid_position(w, PositionAdd(bp, direction_to_offset(d))) THEN same
        ELSE IF ~allow THEN same
        ELSE swap(g, pos, w, bp, PositionAdd(bp, swap_offset(d)))

\* A call of _move_blank_block, statement by statement.  st is the statement
\* the call stands before: "check" (line 73), "gate" (line 76), "arg1" and "arg2"
\* (the two arguments of the call of swap), "swap1".."swap6" (the six
\* assignments of Grid.swap); lhs, rhs, tmp and tmp_position are its locals.
IdleFrame ==
    [st |-> "idle", d |-> "none", lhs |-> Position(0, 0), rhs |-> Position(0, 0),
     tmp |-> 0, tmp_position |-> Position(0, 0)]

StartFrame(d) == [IdleFrame EXCEPT !.st = "check", !.d = d]

\* The statements a call stands before once the bounds check and before the
\* swap has made its last assignment.
PastCheck == {"gate", "arg1", "arg2", "swap1", "swap2", "swap3", "swap4", "swap5", "swap6"}

\* The statements of Grid.swap.
InSwap == {"swap1", "swap2", "swap3", "swap4", "swap5", "swap6"}

\* The statement frame f stands before is executed on grid g and position
\* attributes pos: the frame, the grid and the attributes it leaves, whether it
\* raised, whether the call has returned and whether it has completed a swap.
FrameStep(f, g, pos, w, allow) ==
    LET n == w * w
        l == Subscript(to_index(w, f.lhs), n)
        r == Subscript(to_index(w, f.rhs), n)
        out(f2, g2, pos2, raises, returns, swapped) ==
            [frame |-> IF raises \/ returns THEN IdleFrame ELSE f2, grid |-> g2,
             position |-> pos2, raised |-> raises, returned |-> raises \/ returns,
             applied |-> swapped]
        goes(st) == out([f EXCEPT !.st = st], g, pos, FALSE, FALSE, FALSE)
        fails == out(f, g, pos, TRUE, FALSE, FALSE)
        returns == out(f, g, pos, FALSE, TRUE, FALSE)
        absent == get_position_raises(g, w, blank_block)
        bp == get_position(g, w, blank_block)
    IN  CASE f.st = "check" ->
                IF absent THEN fails
                ELSE IF ~is_valid_position(w, PositionAdd(bp, direction_to_offset(f.d)))
                     THEN returns
                     ELSE goes("gate")
          [] f.st = "gate" -> IF ~allow THEN returns ELSE goes("arg1")
          [] f.st = "arg1" ->
                IF absent THEN fails
                ELSE out([f EXCEPT !.st = "arg2", !.lhs = bp], g, pos, FALSE, FALSE, FALSE)
          [] f.st = "arg2" ->
                IF absent THEN fails
                ELSE out([f EXCEPT !.st = "swap1", !.rhs = PositionAdd(bp, swap_offset(f.d))],
                         g, pos, FALSE, FALSE, FALSE)
          [] f.st = "swap1" ->
                IF l < 0 THEN fails
                ELSE out([f EXCEPT !.st = "swap2", !.tmp = g[l]], g, pos, FALSE, FALSE, FALSE)
          [] f.st = "swap2" ->
                IF l < 0 \/ r < 0 THEN fails
                ELSE out([f EXCEPT !.st = "swap3"], [g EXCEPT ![l] = g[r]], pos,
                         FALSE, FALSE, FALSE)
          [] f.st = "swap3" ->
                IF r < 0 THEN fails
                ELSE out([f EXCEPT !.st = "swap4"], [g EXCEPT ![r] = f.tmp], pos,
                         FALSE, FALSE, FALSE)
          [] f.st = "swap4" ->
                out([f EXCEPT !.st = "swap5", !.tmp_position = pos[g[l]]], g, pos,
                    FALSE, FALSE, FALSE)
          [] f.st = "swap5" ->
                out([f EXCEPT !.st = "swap6"], g, [pos EXCEPT ![g[l]] = pos[g[r]]],
                    FALSE, FALSE, FALSE)
          [] f.st = "swap6" ->
                out(f, g, [pos EXCEPT ![g[r]] = f.tmp_position], FALSE, TRUE, TRUE)

\* Mutant of _enter_pressed and _escape_pressed: the latch is read into a local,
\* cleared whatever was read, and the local is returned.
latch_clear_always(read) == TRUE

\* "if self.enter_pressed:" - the assignment that clears the latch is made when
\* the latch was read set.
latch_clear_needed(read) == read

\* int(x) for x = ticks / TicksPerSecond seconds: truncation towards zero.
int_seconds(ticks) ==
    IF ticks >= 0 THEN ticks \div TicksPerSecond ELSE -((-ticks) \div TicksPerSecond)

\* Mutant of the congratulations text: the operands of the difference change
\* places.
elapsed_reversed(started, solved) == int_seconds(started - solved)

\* int(game_solved - game_started)
elapsed(started, solved) == int_seconds(solved - started)

\* The texts run() gives the text box.
no_text == [kind |-> "empty"]

welcome_text == [kind |-> "welcome"]

congratulations_text(seconds) == [kind |-> "congratulations", seconds |-> seconds]

move_list ==
    <<"DOWN", "DOWN", "DOWN", "RIGHT", "RIGHT", "RIGHT", "LEFT", "LEFT", "UP", "UP">>

\* _enter_pressed and _escape_pressed: the value returned and the latch left.
poll_latch(latch) == [ret |-> latch, latch |-> FALSE]

Sleeping == {"intro_sleep", "playing_sleep", "solved_sleep"}

\* The places of run() inside a poll of a latch and between the statements
\* that follow a loop; they are seen only where run() can be preempted.
IntroInner == {"intro_clear_enter", "intro_read_escape", "intro_clear_escape",
               "intro_confirmed"}

PlayingInner == {"playing_read_escape", "playing_clear_escape", "playing_solved"}

SolvedInner == {"solved_clear_enter"}

Running == {"start", "intro_poll", "intro_sleep", "shuffling", "playing_poll",
            "playing_sleep", "solved_poll", "solved_sleep"}
           \cup IntroInner \cup PlayingInner \cup SolvedInner

\* The phases of the game loop, by the place of run().
IntroPcs == {"start", "intro_poll", "intro_sleep"} \cup IntroInner

PlayingPcs == {"playing_poll", "playing_sleep"} \cup PlayingInner

SolvedPcs == {"solved_poll", "solved_sleep"} \cup SolvedInner

PhaseOf(p) ==
    CASE p \in IntroPcs -> "Intro"
      [] p = "shuffling" -> "Shuffling"
      [] p \in PlayingPcs -> "Playing"
      [] p \in SolvedPcs -> "Solved"
      [] OTHER -> "Ended"

\* The phase of the game loop run() stands in.
Phase == PhaseOf(pc)

\* History: the step being taken and the state it starts from.
Step(op, d) ==
    [op |-> op, d |-> d, pc |-> pc, grid |-> grid, position |-> position,
     allow_moving |-> allow_moving, enter_pressed |-> enter_pressed,
     escape_pressed |-> escape_pressed, shuffle_log |-> shuffle_log,
     pressed_in |-> pressed_in, shuffle_i |-> shuffle_i,
     correct_order |-> correct_order, clock |-> clock,
     game_started |-> game_started]

Init ==
    /\ size \in 2..MaxN
    /\ grid = InitialGrid(size)
    /\ position = InitialPosition(size)
    /\ correct_order = InitialGrid(size)
    /\ enter_pressed = FALSE
    /\ escape_pressed = FALSE
    /\ allow_moving = FALSE
    /\ text_box = [text |-> no_text, visible |-> TRUE]
    /\ pc = "start"
    /\ shuffle_i = 0
    /\ raised = FALSE
    /\ shuffle_log = <<>>
    /\ moves = 0
    /\ pressed_in = [enter |-> "none", escape |-> "none"]
    /\ last = [op |-> "init", d |-> "none", pc |-> "start", grid |-> InitialGrid(size),
               position |-> InitialPosition(size), allow_moving |-> FALSE,
               enter_pressed |-> FALSE, escape_pressed |-> FALSE, shuffle_log |-> <<>>,
               pressed_in |-> [enter |-> "none", escape |-> "none"], shuffle_i |-> 0,
               correct_order |-> InitialGrid(size), clock |-> 0, game_started |-> -1]
    /\ poll_ret = FALSE
    /\ shuffle_frame = IdleFrame
    /\ callback_frame = IdleFrame
    /\ clock = 0
    /\ game_started = -1
    /\ game_solved = -1
    /\ draw_pc = "waiting"

\* run(): the welcome text is set and shown.
RunStart ==
    /\ pc = "start"
    /\ text_box' = [text |-> welcome_text, visible |-> TRUE]
    /\ pc' = "intro_poll"
    /\ last' = Step("start", "none")
    /\ UNCHANGED draw_pc
    /\ UNCHANGED <<poll_ret, shuffle_frame, callback_frame>>
    /\ UNCHANGED <<clock, game_started, game_solved>>
    /\ UNCHANGED <<size, grid, position, correct_order, enter_pressed, escape_pressed,
                   allow_moving, shuffle_i, raised, shuffle_log, moves,
                   pressed_in>>

\* Mutant of the intro loop: the return after an observed escape is missing, so
\* the loop is left as if enter had been pressed.
IntroPollNoReturn ==
    /\ pc = "intro_poll"
    /\ last' = Step("intro_poll", "none")
    /\ UNCHANGED draw_pc
    /\ UNCHANGED <<poll_ret, shuffle_frame, callback_frame>>
    /\ game_started' = IF enter_pressed \/ escape_pressed THEN clock ELSE game_started
    /\ UNCHANGED <<clock, game_solved>>
    /\ LET e == poll_latch(enter_pressed)
           c == poll_latch(escape_pressed)
       IN  /\ enter_pressed' = e.latch
           /\ IF e.ret \/ c.ret
              THEN /\ text_box' = [text_box EXCEPT !.visible = FALSE]
                   /\ allow_moving' = TRUE
                   /\ pc' = "shuffling"
                   /\ shuffle_i' = 0
                   /\ escape_pressed' = IF e.ret THEN escape_pressed ELSE c.latch
              ELSE /\ escape_pressed' = c.latch
                   /\ pc' = "intro_sleep"
                   /\ UNCHANGED <<text_box, allow_moving, shuffle_i>>
    /\ UNCHANGED <<size, grid, position, correct_order, raised, shuffle_log, moves>>
    /\ pressed_in' = [enter |-> "none",
                      escape |-> IF enter_pressed THEN pressed_in.escape ELSE "none"]

\* Mutant of the intro loop: both latches are polled in every round, so a
\* pending escape is consumed by the round in which enter is observed.
IntroPollPollsBoth ==
    /\ pc = "intro_poll"
    /\ last' = Step("intro_poll", "none")
    /\ UNCHANGED draw_pc
    /\ UNCHANGED <<poll_ret, shuffle_frame, callback_frame>>
    /\ game_started' = IF enter_pressed THEN clock ELSE game_started
    /\ UNCHANGED <<clock, game_solved>>
    /\ LET e == poll_latch(enter_pressed)
           c == poll_latch(escape_pressed)
       IN  /\ enter_pressed' = e.latch
           /\ escape_pressed' = c.latch
           /\ IF e.ret
              THEN /\ text_box' = [text_box EXCEPT !.visible = FALSE]
                   /\ allow_moving' = TRUE
                   /\ pc' = "shuffling"
                   /\ shuffle_i' = 0
              ELSE /\ pc' = IF c.ret THEN "done" ELSE "intro_sleep"
                   /\ UNCHANGED <<text_box, allow_moving, shuffle_i>>
    /\ UNCHANGED <<size, grid, position, correct_order, raised, shuffle_log, moves>>
    /\ pressed_in' = [enter |-> "none", escape |-> "none"]

\* One evaluation of "while not self._enter_pressed()" in the intro loop, up to
\* the next await, the return, or the start of the shuffle.
IntroPoll ==
    /\ pc = "intro_poll"
    /\ last' = Step("intro_poll", "none")
    /\ UNCHANGED draw_pc
    /\ UNCHANGED <<poll_ret, shuffle_frame, callback_frame>>
    /\ game_started' = IF enter_pressed THEN clock ELSE game_started
    /\ UNCHANGED <<clock, game_solved>>
    /\ LET e == poll_latch(enter_pressed)
       IN  /\ enter_pressed' = e.latch
           /\ IF e.ret
              THEN /\ text_box' = [text_box EXCEPT !.visible = FALSE]
                   /\ allow_moving' = TRUE
                   /\ pc' = "shuffling"
                   /\ shuffle_i' = 0
                   /\ UNCHANGED escape_pressed
              ELSE LET c == poll_latch(escape_pressed)
                   IN  /\ escape_pressed' = c.latch
                       /\ pc' = IF c.ret THEN "done" ELSE "intro_sleep"
                       /\ UNCHANGED <<text_box, allow_moving, shuffle_i>>
    /\ UNCHANGED <<size, grid, position, correct_order, raised, shuffle_log, moves>>
    /\ pressed_in' = [enter |-> "none",
                      escape |-> IF enter_pressed THEN pressed_in.escape ELSE "none"]

\* asyncio.sleep(0.2) completes: run() is resumed at its loop condition.
Wake ==
    /\ pc \in Sleeping
    /\ pc' = CASE pc = "intro_sleep" -> "intro_poll"
               [] pc = "playing_sleep" -> "playing_poll"
               [] pc = "solved_sleep" -> "solved_poll"
    /\ last' = Step("wake", "none")
    /\ UNCHANGED draw_pc
    /\ UNCHANGED <<poll_ret, shuffle_frame, callback_frame>>
    /\ UNCHANGED <<clock, game_started, game_solved>>
    /\ UNCHANGED <<size, grid, position, correct_order, enter_pressed, escape_pressed,
                   allow_moving, text_box, shuffle_i, raised, shuffle_log, moves,
                   pressed_in>>

\* Mutant of _shuffle_board: a selection that is absorbed is not counted (the
\* loop runs until the number of applied moves reaches the bound).
ShuffleStepCountsApplied(k) ==
    /\ pc = "shuffling"
    /\ shuffle_i < ShuffleSelections
    /\ LET d == move_list[k]
           r == move_blank_block(grid, position, size, allow_moving, d)
       IN  /\ grid' = r.grid
           /\ position' = r.position
           /\ raised' = r.raised
           /\ pc' = IF r.raised THEN "crashed" ELSE pc
           /\ shuffle_log' = IF r.grid # grid THEN Append(shuffle_log, d) ELSE shuffle_log
           /\ last' = Step("shuffle_step", d)
           /\ UNCHANGED draw_pc
           /\ UNCHANGED <<poll_ret, shuffle_frame, callback_frame>>
           /\ UNCHANGED <<clock, game_started, game_solved>>
           /\ correct_order' = correct_order_after_write(correct_order, r.grid)
           /\ shuffle_i' = IF r.grid # grid THEN shuffle_i + 1 ELSE shuffle_i
    /\ UNCHANGED <<size, enter_pressed, escape_pressed, allow_moving,
                   text_box, moves,
                   pressed_in>>

\* One iteration of the loop of _shuffle_board.
ShuffleStep(k) ==
    /\ pc = "shuffling"
    /\ shuffle_i < ShuffleSelections
    /\ LET d == move_list[k]
           r == move_blank_block(grid, position, size, allow_moving, d)
       IN  /\ grid' = r.grid
           /\ position' = r.position
           /\ raised' = r.raised
           /\ pc' = IF r.raised THEN "crashed" ELSE pc
           /\ shuffle_log' = IF r.grid # grid THEN Append(shuffle_log, d) ELSE shuffle_log
           /\ last' = Step("shuffle_step", d)
           /\ UNCHANGED draw_pc
           /\ UNCHANGED <<poll_ret, shuffle_frame, callback_frame>>
           /\ UNCHANGED <<clock, game_started, game_solved>>
           /\ correct_order' = correct_order_after_write(correct_order, r.grid)
    /\ shuffle_i' = shuffle_i + 1
    /\ UNCHANGED <<size, enter_pressed, escape_pressed, allow_moving,
                   text_box, moves,
                   pressed_in>>

\* The loop of _shuffle_board is exhausted: run() goes on to the playing loop.
ShuffleDone ==
    /\ pc = "shuffling"
    /\ shuffle_i = ShuffleSelections
    /\ pc' = "playing_poll"
    /\ last' = Step("shuffle_done", "none")
    /\ UNCHANGED draw_pc
    /\ UNCHANGED <<poll_ret, shuffle_frame, callback_frame>>
    /\ UNCHANGED <<clock, game_started, game_solved>>
    /\ UNCHANGED <<size, grid, position, correct_order, enter_pressed, escape_pressed,
                   allow_moving, text_box, shuffle_i, raised, shuffle_log, moves,
                   pressed_in>>

\* Mutant of the playing loop: the return after an observed escape is missing.
PlayingPollNoReturn ==
    /\ pc = "playing_poll"
    /\ last' = Step("playing_poll", "none")
    /\ UNCHANGED draw_pc
    /\ UNCHANGED <<poll_ret, shuffle_frame, callback_frame>>
    /\ UNCHANGED <<clock, game_started>>
    /\ IF is_solved(correct_order, grid)
       THEN /\ game_solved' = clock
            /\ text_box' = [text |-> congratulations_text(elapsed(game_started, clock)),
                            visible |-> TRUE]
            /\ allow_moving' = FALSE
            /\ pc' = "solved_poll"
            /\ UNCHANGED escape_pressed
       ELSE LET c == poll_latch(escape_pressed)
            IN  /\ escape_pressed' = c.latch
                /\ pc' = "playing_sleep"
                /\ UNCHANGED <<text_box, allow_moving, game_solved>>
    /\ UNCHANGED <<size, grid, position, correct_order, enter_pressed, shuffle_i,
                   raised, shuffle_log, moves>>
    /\ pressed_in' = IF is_solved(correct_order, grid) THEN pressed_in
                     ELSE [pressed_in EXCEPT !.escape = "none"]

\* Mutant of run(): _allow_moving is not cleared when the puzzle is solved.
PlayingPollKeepsGate ==
    /\ pc = "playing_poll"
    /\ last' = Step("playing_poll", "none")
    /\ UNCHANGED draw_pc
    /\ UNCHANGED <<poll_ret, shuffle_frame, callback_frame>>
    /\ UNCHANGED <<clock, game_started>>
    /\ IF is_solved(correct_order, grid)
       THEN /\ game_solved' = clock
            /\ text_box' = [text |-> congratulations_text(elapsed(game_started, clock)),
                            visible |-> TRUE]
            /\ pc' = "solved_poll"
            /\ UNCHANGED <<escape_pressed, allow_moving>>
       ELSE LET c == poll_latch(escape_pressed)
            IN  /\ escape_pressed' = c.latch
                /\ pc' = IF c.ret THEN "done" ELSE "playing_sleep"
                /\ UNCHANGED <<text_box, allow_moving, game_solved>>
    /\ UNCHANGED <<size, grid, position, correct_order, enter_pressed, shuffle_i,
                   raised, shuffle_log, moves>>
    /\ pressed_in' = IF is_solved(correct_order, grid) THEN pressed_in
                     ELSE [pressed_in EXCEPT !.escape = "none"]

\* Mutant of the playing loop: the escape latch is polled before the grid is
\* compared with the solved order.
PlayingPollEscapeFirst ==
    /\ pc = "playing_poll"
    /\ last' = Step("playing_poll", "none")
    /\ UNCHANGED draw_pc
    /\ UNCHANGED <<poll_ret, shuffle_frame, callback_frame>>
    /\ UNCHANGED <<clock, game_started>>
    /\ LET c == poll_latch(escape_pressed)
       IN  /\ escape_pressed' = c.latch
           /\ IF c.ret
              THEN /\ pc' = "done"
                   /\ UNCHANGED <<text_box, allow_moving, game_solved>>
              ELSE IF is_solved(correct_order, grid)
              THEN /\ game_solved' = clock
                   /\ text_box' = [text |-> congratulations_text(elapsed(game_started, clock)),
                                   visible |-> TRUE]
                   /\ allow_moving' = FALSE
                   /\ pc' = "solved_poll"
              ELSE /\ pc' = "playing_sleep"
                   /\ UNCHANGED <<text_box, allow_moving, game_solved>>
    /\ UNCHANGED <<size, grid, position, correct_order, enter_pressed, shuffle_i,
                   raised, shuffle_log, moves>>
    /\ pressed_in' = [pressed_in EXCEPT !.escape = "none"]

\* One evaluation of "while not self._is_solved()" in the playing loop, up to the
\* next await, the return, or the first evaluation of the solved loop's condition.
PlayingPoll ==
    /\ pc = "playing_poll"
    /\ last' = Step("playing_poll", "none")
    /\ UNCHANGED draw_pc
    /\ UNCHANGED <<poll_ret, shuffle_frame, callback_frame>>
    /\ UNCHANGED <<clock, game_started>>
    /\ IF is_solved(correct_order, grid)
       THEN /\ game_solved' = clock
            /\ text_box' = [text |-> congratulations_text(elapsed(game_started, clock)),
                            visible |-> TRUE]
            /\ allow_moving' = FALSE
            /\ pc' = "solved_poll"
            /\ UNCHANGED escape_pressed
       ELSE LET c == poll_latch(escape_pressed)
            IN  /\ escape_pressed' = c.latch
                /\ pc' = IF c.ret THEN "done" ELSE "playing_sleep"
                /\ UNCHANGED <<text_box, allow_moving, game_solved>>
    /\ UNCHANGED <<size, grid, position, correct_order, enter_pressed, shuffle_i,
                   raised, shuffle_log, moves>>
    /\ pressed_in' = IF is_solved(correct_order, grid) THEN pressed_in
                     ELSE [pressed_in EXCEPT !.escape = "none"]

\* Mutant of the solved loop: escape is honoured as in the other two loops.
SolvedPollHonoursEscape ==
    /\ pc = "solved_poll"
    /\ last' = Step("solved_poll", "none")
    /\ UNCHANGED draw_pc
    /\ UNCHANGED <<poll_ret, shuffle_frame, callback_frame>>
    /\ UNCHANGED <<clock, game_started, game_solved>>
    /\ LET e == poll_latch(enter_pressed)
           c == poll_latch(escape_pressed)
       IN  /\ enter_pressed' = e.latch
           /\ escape_pressed' = IF e.ret THEN escape_pressed ELSE c.latch
           /\ pc' = IF e.ret \/ c.ret THEN "done" ELSE "solved_sleep"
    /\ UNCHANGED <<size, grid, position, correct_order, allow_moving,
                   text_box, shuffle_i, raised, shuffle_log, moves>>
    /\ pressed_in' = [enter |-> "none",
                      escape |-> IF enter_pressed THEN pressed_in.escape ELSE "none"]

\* One evaluation of "while not self._enter_pressed()" in the solved loop.
SolvedPoll ==
    /\ pc = "solved_poll"
    /\ last' = Step("solved_poll", "none")
    /\ UNCHANGED draw_pc
    /\ UNCHANGED <<poll_ret, shuffle_frame, callback_frame>>
    /\ UNCHANGED <<clock, game_started, game_solved>>
    /\ LET e == poll_latch(enter_pressed)
       IN  /\ enter_pressed' = e.latch
           /\ pc' = IF e.ret THEN "done" ELSE "solved_sleep"
    /\ UNCHANGED <<size, grid, position, correct_order, escape_pressed, allow_moving,
                   text_box, shuffle_i, raised, shuffle_log, moves>>
    /\ pressed_in' = [pressed_in EXCEPT !.enter = "none"]

\* handle_enter, called by the surface for the ENTER key.
KeyEnter ==
    /\ pc \in Sleeping
    /\ enter_pressed' = TRUE
    /\ last' = Step("key_enter", "none")
    /\ UNCHANGED draw_pc
    /\ UNCHANGED <<poll_ret, shuffle_frame, callback_frame>>
    /\ UNCHANGED <<clock, game_started, game_solved>>
    /\ UNCHANGED <<size, grid, position, correct_order, escape_pressed, allow_moving,
                   text_box, pc, shuffle_i, raised, shuffle_log, moves>>
    /\ pressed_in' = [pressed_in EXCEPT !.enter = Phase]

\* handle_escape, called by the surface for the ESCAPE key.
KeyEscape ==
    /\ pc \in Sleeping
    /\ escape_pressed' = TRUE
    /\ last' = Step("key_escape", "none")
    /\ UNCHANGED draw_pc
    /\ UNCHANGED <<poll_ret, shuffle_frame, callback_frame>>
    /\ UNCHANGED <<clock, game_started, game_solved>>
    /\ UNCHANGED <<size, grid, position, correct_order, enter_pressed, allow_moving,
                   text_box, pc, shuffle_i, raised, shuffle_log, moves>>
    /\ pressed_in' = [pressed_in EXCEPT !.escape = Phase]

\* handle_escape, called as the handler of SIGINT.
Interrupt ==
    /\ pc \in Running
    /\ escape_pressed' = TRUE
    /\ last' = Step("interrupt", "none")
    /\ UNCHANGED draw_pc
    /\ UNCHANGED <<poll_ret, shuffle_frame, callback_frame>>
    /\ UNCHANGED <<clock, game_started, game_solved>>
    /\ UNCHANGED <<size, grid, position, correct_order, enter_pressed, allow_moving,
                   text_box, pc, shuffle_i, raised, shuffle_log, moves>>
    /\ pressed_in' = [pressed_in EXCEPT !.escape = Phase]

\* move_blank_block_down/up/left/right, called by the surface for an arrow key.
KeyMove(d) ==
    /\ pc \in Sleeping
    /\ moves < MaxPlayerMoves
    /\ LET r == move_blank_block(grid, position, size, allow_moving, d)
       IN  /\ grid' = r.grid
           /\ position' = r.position
           /\ raised' = r.raised
           /\ pc' = IF r.raised THEN "crashed" ELSE pc
           /\ correct_order' = correct_order_after_write(correct_order, r.grid)
    /\ moves' = moves + 1
    /\ last' = Step("key_move", d)
    /\ UNCHANGED draw_pc
    /\ UNCHANGED <<poll_ret, shuffle_frame, callback_frame>>
    /\ UNCHANGED <<clock, game_started, game_solved>>
    /\ UNCHANGED <<size, enter_pressed, escape_pressed, allow_moving,
                   text_box, shuffle_i, shuffle_log,
                   pressed_in>>

Next ==
    \/ RunStart
    \/ IntroPoll
    \/ Wake
    \/ \E k \in 1..Len(move_list) : ShuffleStep(k)
    \/ ShuffleDone
    \/ PlayingPoll
    \/ SolvedPoll
    \/ KeyEnter
    \/ KeyEscape
    \/ Interrupt
    \/ \E d \in Direction : KeyMove(d)

Spec == Init /\ [][Next]_vars

----------------------------------------------------------------------------
\* The Grid class on its own: a harness calls Grid.swap with any two positions
\* of the board on the grid the engine was constructed with, for the boards of
\* the sides in GridSides.

GridSides == {2, 3}

InitGrid == Init /\ size \in GridSides

BoardPositions(n) == {Position(x, y) : x \in 0..(n - 1), y \in 0..(n - 1)}

\* grid.swap(lhs, rhs)
GridSwap(lhs, rhs) ==
    /\ pc = "start"
    /\ moves < MaxSwaps
    /\ LET r == swap(grid, position, size, lhs, rhs)
       IN  /\ grid' = r.grid
           /\ position' = r.position
           /\ raised' = r.raised
           /\ correct_order' = correct_order_after_write(correct_order, r.grid)
    /\ moves' = moves + 1
    /\ last' = Step("grid_swap", [lhs |-> lhs, rhs |-> rhs])
    /\ UNCHANGED draw_pc
    /\ UNCHANGED <<poll_ret, shuffle_frame, callback_frame>>
    /\ UNCHANGED <<clock, game_started, game_solved>>
    /\ UNCHANGED <<size, enter_pressed, escape_pressed, allow_moving,
                   text_box, pc, shuffle_i, shuffle_log, pressed_in>>

NextGrid == \E lhs, rhs \in BoardPositions(size) : GridSwap(lhs, rhs)

SpecGrid == InitGrid /\ [][NextGrid]_vars

----------------------------------------------------------------------------
\* The game loop with time passing: the clock may advance between any two steps
\* of a session that has not ended.  Nothing that reads the clock depends on
\* the side of the board; the session followed is that of the smallest one.

\* The clock advances by one tick; it is no step of the program.
Tick ==
    /\ pc \in Running
    /\ clock < MaxClock
    /\ clock' = clock + 1
    /\ UNCHANGED <<size, grid, position, correct_order, enter_pressed, escape_pressed,
                   allow_moving, text_box, pc, shuffle_i, raised, shuffle_log, moves,
                   pressed_in, game_started, game_solved, poll_ret, shuffle_frame,
                   callback_frame, draw_pc, last>>

NextClock ==
    \/ Next
    \/ Tick

\* The engine constructed for the smallest board main() accepts.
InitSmallest == Init /\ size = 2

SpecClock == InitSmallest /\ [][NextClock]_vars

----------------------------------------------------------------------------
\* The session on the windowed surface.  TkDrawingEngine runs the Tk main loop
\* in a thread of its own, and Tk calls the bound callbacks from that thread:
\* a callback runs while run() stands anywhere, and the interpreter may switch
\* between the two threads between any two statements.  A step is one
\* statement that reads or writes what the threads share.

\* The place of run() after a poll of the confirm latch that started at pc p.
AfterEnter(p, ret) ==
    CASE p \in {"intro_poll", "intro_clear_enter"} ->
             IF ret THEN "intro_confirmed" ELSE "intro_read_escape"
      [] p \in {"solved_poll", "solved_clear_enter"} ->
             IF ret THEN "done" ELSE "solved_sleep"

\* The place of run() after a poll of the cancel latch.
AfterEscape(p, ret) ==
    CASE p \in {"intro_read_escape", "intro_clear_escape"} ->
             IF ret THEN "done" ELSE "intro_sleep"
      [] p \in {"playing_read_escape", "playing_clear_escape"} ->
             IF ret THEN "done" ELSE "playing_sleep"

\* _enter_pressed: "if self.enter_pressed:".
ReadEnter ==
    /\ pc \in {"intro_poll", "solved_poll"}
    /\ poll_ret' = enter_pressed
    /\ pc' = IF latch_clear_needed(enter_pressed)
             THEN (IF pc = "intro_poll" THEN "intro_clear_enter" ELSE "solved_clear_enter")
             ELSE AfterEnter(pc, enter_pressed)
    /\ last' = Step("read_enter", "none")
    /\ UNCHANGED draw_pc
    /\ UNCHANGED <<size, grid, position, correct_order, enter_pressed, escape_pressed,
                   allow_moving, text_box, shuffle_i, raised, shuffle_log, moves,
                   pressed_in, clock, game_started, game_solved, shuffle_frame,
                   callback_frame>>

\* _enter_pressed: "self.enter_pressed = False" and the return.  The history
\* keeps, as the argument of the step, the step that came right before it.
ClearEnter ==
    /\ pc \in {"intro_clear_enter", "solved_clear_enter"}
    /\ enter_pressed' = FALSE
    /\ pc' = AfterEnter(pc, poll_ret)
    /\ pressed_in' = IF poll_ret THEN [pressed_in EXCEPT !.enter = "none"] ELSE pressed_in
    /\ last' = Step("clear_enter", last.op)
    /\ UNCHANGED draw_pc
    /\ UNCHANGED <<size, grid, position, correct_order, escape_pressed,
                   allow_moving, text_box, shuffle_i, raised, shuffle_log, moves,
                   clock, game_started, game_solved, poll_ret, shuffle_frame,
                   callback_frame>>

\* _escape_pressed: "if self.escape_pressed:".
ReadEscape ==
    /\ pc \in {"intro_read_escape", "playing_read_escape"}
    /\ poll_ret' = escape_pressed
    /\ pc' = IF latch_clear_needed(escape_pressed)
             THEN (IF pc = "intro_read_escape" THEN "intro_clear_escape"
                   ELSE "playing_clear_escape")
             ELSE AfterEscape(pc, escape_pressed)
    /\ last' = Step("read_escape", "none")
    /\ UNCHANGED draw_pc
    /\ UNCHANGED <<size, grid, position, correct_order, enter_pressed, escape_pressed,
                   allow_moving, text_box, shuffle_i, raised, shuffle_log, moves,
                   pressed_in, clock, game_started, game_solved, shuffle_frame,
                   callback_frame>>

\* _escape_pressed: "self.escape_pressed = False" and the return.  The history
\* keeps, as the argument of the step, the step that came right before it.
ClearEscape ==
    /\ pc \in {"intro_clear_escape", "playing_clear_escape"}
    /\ escape_pressed' = FALSE
    /\ pc' = AfterEscape(pc, poll_ret)
    /\ pressed_in' = IF poll_ret THEN [pressed_in EXCEPT !.escape = "none"] ELSE pressed_in
    /\ last' = Step("clear_escape", last.op)
    /\ UNCHANGED draw_pc
    /\ UNCHANGED <<size, grid, position, correct_order, enter_pressed,
                   allow_moving, text_box, shuffle_i, raised, shuffle_log, moves,
                   clock, game_started, game_solved, poll_ret, shuffle_frame,
                   callback_frame>>

\* run(), lines 163 to 166: the intro loop has been left on an observed confirm.
IntroConfirmed ==
    /\ pc = "intro_confirmed"
    /\ game_started' = clock
    /\ text_box' = [text_box EXCEPT !.visible = FALSE]
    /\ allow_moving' = TRUE
    /\ shuffle_i' = 0
    /\ pc' = "shuffling"
    /\ last' = Step("intro_confirmed", "none")
    /\ UNCHANGED draw_pc
    /\ UNCHANGED <<size, grid, position, correct_order, enter_pressed, escape_pressed,
                   raised, shuffle_log, moves, pressed_in, clock, game_solved,
                   poll_ret, shuffle_frame, callback_frame>>

\* _shuffle_board: random.choice and the call of _move_blank_block.
ShuffleSelect(k) ==
    /\ pc = "shuffling"
    /\ shuffle_i < TkShuffleSelections
    /\ shuffle_frame = IdleFrame
    /\ shuffle_frame' = StartFrame(move_list[k])
    /\ last' = Step("shuffle_select", move_list[k])
    /\ UNCHANGED draw_pc
    /\ UNCHANGED <<size, grid, position, correct_order, enter_pressed, escape_pressed,
                   allow_moving, text_box, pc, shuffle_i, raised, shuffle_log, moves,
                   pressed_in, clock, game_started, game_solved, poll_ret,
                   callback_frame>>

\* One statement of the call of _move_blank_block made by _shuffle_board; an
\* exception leaves run().
ShuffleMoveStep ==
    /\ pc = "shuffling"
    /\ shuffle_frame # IdleFrame
    /\ LET r == FrameStep(shuffle_frame, grid, position, size, allow_moving)
       IN  /\ shuffle_frame' = r.frame
           /\ grid' = r.grid
           /\ position' = r.position
           /\ correct_order' = correct_order_after_write(correct_order, r.grid)
           /\ raised' = (raised \/ r.raised)
           /\ pc' = IF r.raised THEN "crashed" ELSE pc
           /\ shuffle_i' = IF r.returned THEN shuffle_i + 1 ELSE shuffle_i
           /\ shuffle_log' = IF r.applied THEN Append(shuffle_log, shuffle_frame.d)
                             ELSE shuffle_log
    /\ last' = Step("shuffle_move_step", shuffle_frame.d)
    /\ UNCHANGED draw_pc
    /\ UNCHANGED <<size, enter_pressed, escape_pressed, allow_moving, text_box, moves,
                   pressed_in, clock, game_started, game_solved, poll_ret,
                   callback_frame>>

\* The loop of _shuffle_board is exhausted: run() goes on to the playing loop.
ShuffleReturn ==
    /\ pc = "shuffling"
    /\ shuffle_frame = IdleFrame
    /\ shuffle_i = TkShuffleSelections
    /\ pc' = "playing_poll"
    /\ last' = Step("shuffle_return", "none")
    /\ UNCHANGED draw_pc
    /\ UNCHANGED <<size, grid, position, correct_order, enter_pressed, escape_pressed,
                   allow_moving, text_box, shuffle_i, raised, shuffle_log, moves,
                   pressed_in, clock, game_started, game_solved, poll_ret,
                   shuffle_frame, callback_frame>>

\* run(), line 170: "while not self._is_solved()".
CheckSolved ==
    /\ pc = "playing_poll"
    /\ pc' = IF is_solved(correct_order, grid) THEN "playing_solved"
             ELSE "playing_read_escape"
    /\ last' = Step("check_solved", "none")
    /\ UNCHANGED draw_pc
    /\ UNCHANGED <<size, grid, position, correct_order, enter_pressed, escape_pressed,
                   allow_moving, text_box, shuffle_i, raised, shuffle_log, moves,
                   pressed_in, clock, game_started, game_solved, poll_ret,
                   shuffle_frame, callback_frame>>

\* run(), lines 175 to 182: the playing loop has been left on the solved order.
EnterSolved ==
    /\ pc = "playing_solved"
    /\ game_solved' = clock
    /\ text_box' = [text |-> congratulations_text(elapsed(game_started, clock)),
                    visible |-> TRUE]
    /\ allow_moving' = FALSE
    /\ pc' = "solved_poll"
    /\ last' = Step("enter_solved", "none")
    /\ UNCHANGED draw_pc
    /\ UNCHANGED <<size, grid, position, correct_order, enter_pressed, escape_pressed,
                   shuffle_i, raised, shuffle_log, moves, pressed_in, clock,
                   game_started, poll_ret, shuffle_frame, callback_frame>>

\* handle_enter, called from the surface's thread.
CallbackEnter ==
    /\ pc \in Running
    /\ callback_frame = IdleFrame
    /\ enter_pressed' = TRUE
    /\ pressed_in' = [pressed_in EXCEPT !.enter = Phase]
    /\ last' = Step("callback_enter", "none")
    /\ UNCHANGED draw_pc
    /\ UNCHANGED <<size, grid, position, correct_order, escape_pressed, allow_moving,
                   text_box, pc, shuffle_i, raised, shuffle_log, moves, clock,
                   game_started, game_solved, poll_ret, shuffle_frame, callback_frame>>

\* handle_escape, called from the surface's thread.
CallbackEscape ==
    /\ pc \in Running
    /\ callback_frame = IdleFrame
    /\ escape_pressed' = TRUE
    /\ pressed_in' = [pressed_in EXCEPT !.escape = Phase]
    /\ last' = Step("callback_escape", "none")
    /\ UNCHANGED draw_pc
    /\ UNCHANGED <<size, grid, position, correct_order, enter_pressed, allow_moving,
                   text_box, pc, shuffle_i, raised, shuffle_log, moves, clock,
                   game_started, game_solved, poll_ret, shuffle_frame, callback_frame>>

\* move_blank_block_down/up/left/right is called from the surface's thread.
CallbackMove(d) ==
    /\ pc \in Running
    /\ callback_frame = IdleFrame
    /\ moves < TkCallbackMoves
    /\ callback_frame' = StartFrame(d)
    /\ moves' = moves + 1
    /\ last' = Step("callback_move", d)
    /\ UNCHANGED draw_pc
    /\ UNCHANGED <<size, grid, position, correct_order, enter_pressed, escape_pressed,
                   allow_moving, text_box, pc, shuffle_i, raised, shuffle_log,
                   pressed_in, clock, game_started, game_solved, poll_ret,
                   shuffle_frame>>

\* One statement of the call of _move_blank_block made by a callback; Tk
\* reports an exception that leaves a callback and goes on.
CallbackMoveStep ==
    /\ pc \in Running
    /\ callback_frame # IdleFrame
    /\ LET r == FrameStep(callback_frame, grid, position, size, allow_moving)
       IN  /\ callback_frame' = r.frame
           /\ grid' = r.grid
           /\ position' = r.position
           /\ correct_order' = correct_order_after_write(correct_order, r.grid)
           /\ raised' = (raised \/ r.raised)
    /\ last' = Step("callback_move_step", callback_frame.d)
    /\ UNCHANGED draw_pc
    /\ UNCHANGED <<size, enter_pressed, escape_pressed, allow_moving, text_box, pc,
                   shuffle_i, shuffle_log, moves, pressed_in, clock, game_started,
                   game_solved, poll_ret, shuffle_frame>>

\* The session in which the player uses the confirm and the cancel key (and the
\* interrupt) only.
NextLatch ==
    \/ RunStart
    \/ ReadEnter
    \/ ClearEnter
    \/ ReadEscape
    \/ ClearEscape
    \/ IntroConfirmed
    \/ Wake
    \/ \E k \in 1..Len(move_list) : ShuffleSelect(k)
    \/ ShuffleMoveStep
    \/ ShuffleReturn
    \/ CheckSolved
    \/ EnterSolved
    \/ CallbackEnter
    \/ CallbackEscape
    \/ Interrupt

SpecLatch == Init /\ [][NextLatch]_vars

\* The session in which the player uses the arrow keys as well, on the smallest
\* board.
NextTk ==
    \/ NextLatch
    \/ \E d \in Direction : CallbackMove(d)
    \/ CallbackMoveStep

SpecTk == InitSmallest /\ [][NextTk]_vars

----------------------------------------------------------------------------
\* The curses surface.  main() runs run() and draw() as two tasks of one asyncio
\* event loop.  Each round of draw() redraws, calls _update(), which calls
\* stdscr.getch() with no timeout set, and then awaits asyncio.sleep(1/30).
\* getch() does not yield to the event loop: while it waits for a key no timer is
\* served, so run() stays in its asyncio.sleep(0.2) however long ago that sleep
\* expired.  draw_pc is "getch" while draw() stands in getch() and "waiting"
\* while it is a task of the loop that is not running (not yet started, or in
\* its sleep).

\* What getch() can return: the codes key_mapping maps, and any other code.
Key == {"ESCAPE", "ENTER", "OTHER"} \cup Direction

\* The event loop is free to resume run().
LoopIsFree == draw_pc = "waiting"

\* run() goes on from where it stands to its next await or to its end.  With
\* both tasks in their sleeps either timer can be the first to expire: it
\* depends on how long getch() had waited when draw() went to sleep.
CursesRun ==
    /\ LoopIsFree
    /\ \/ RunStart
       \/ IntroPoll
       \/ Wake
       \/ \E k \in 1..Len(move_list) : ShuffleStep(k)
       \/ ShuffleDone
       \/ PlayingPoll
       \/ SolvedPoll

\* draw() is resumed (run() stands at an await), redraws and calls getch().
DrawResume ==
    /\ draw_pc = "waiting"
    /\ pc \in Sleeping
    /\ draw_pc' = "getch"
    /\ last' = Step("draw", "none")
    /\ UNCHANGED <<size, grid, position, correct_order, enter_pressed, escape_pressed,
                   allow_moving, text_box, pc, shuffle_i, raised, shuffle_log, moves,
                   pressed_in, clock, game_started, game_solved, poll_ret,
                   shuffle_frame, callback_frame>>

\* The rest of a round of draw(): getch() returns the code of the key pressed,
\* _update() calls the callback registered for it (none for another code: the
\* KeyError is passed over), and draw() awaits its sleep.
CursesUpdate(key) ==
    /\ draw_pc = "getch"
    /\ key \in Direction => moves < MaxPlayerMoves
    /\ LET r == IF key \in Direction
                THEN move_blank_block(grid, position, size, allow_moving, key)
                ELSE [grid |-> grid, position |-> position, raised |-> FALSE]
       IN  /\ grid' = r.grid
           /\ position' = r.position
           /\ raised' = r.raised
           /\ pc' = IF r.raised THEN "crashed" ELSE pc
           /\ correct_order' = correct_order_after_write(correct_order, r.grid)
    /\ moves' = IF key \in Direction THEN moves + 1 ELSE moves
    /\ enter_pressed' = (enter_pressed \/ key = "ENTER")
    /\ escape_pressed' = (escape_pressed \/ key = "ESCAPE")
    /\ pressed_in' = [enter |-> IF key = "ENTER" THEN Phase ELSE pressed_in.enter,
                      escape |-> IF key = "ESCAPE" THEN Phase ELSE pressed_in.escape]
    /\ draw_pc' = "waiting"
    /\ last' = Step(CASE key = "ENTER" -> "key_enter"
                      [] key = "ESCAPE" -> "key_escape"
                      [] key = "OTHER" -> "key_other"
                      [] OTHER -> "key_move", key)
    /\ UNCHANGED <<size, allow_moving, text_box, shuffle_i, shuffle_log, clock,
                   game_started, game_solved, poll_ret, shuffle_frame, callback_frame>>

\* SIGINT while the event loop runs or waits for a timer: handle_escape is
\* called between two bytecodes of the main thread.  A SIGINT that arrives
\* while getch() waits and does not interrupt it has its handler called here
\* too, once a key has made getch() return.
CursesInterrupt ==
    /\ LoopIsFree
    /\ Interrupt

\* SIGINT while getch() waits, where the signal interrupts the read: getch()
\* returns ERR, handle_escape is called, no callback is registered for ERR, and
\* draw() awaits its sleep.
InterruptGetch ==
    /\ draw_pc = "getch"
    /\ escape_pressed' = TRUE
    /\ pressed_in' = [pressed_in EXCEPT !.escape = Phase]
    /\ draw_pc' = "waiting"
    /\ last' = Step("interrupt", "none")
    /\ UNCHANGED <<size, grid, position, correct_order, enter_pressed, allow_moving,
                   text_box, pc, shuffle_i, raised, shuffle_log, moves, clock,
                   game_started, game_solved, poll_ret, shuffle_frame, callback_frame>>

\* The steps the program takes without an input event: those of the event loop.
CursesInternal ==
    \/ CursesRun
    \/ DrawResume

NextCurses ==
    \/ CursesRun
    \/ DrawResume
    \/ \E key \in Key : CursesUpdate(key)
    \/ CursesInterrupt
    \/ InterruptGetch

\* The loop resumes a task whose timer has expired; no key and no signal has to
\* arrive.
SpecCurses == Init /\ [][NextCurses]_vars /\ WF_vars(CursesInternal)

----------------------------------------------------------------------------
\* What the claims speak of, stated apart from the operators above.

Tiles == 0..(size * size - 1)

Cells == 0..(size * size - 1)

\* The board coordinate of sequence index k.
CellPosition(k) == Position(k % size, k \div size)

\* The index at which the blank stands in arrangement g.
BlankIndex(g) == CHOOSE k \in Cells : g[k] = blank_block

ClaimedOffset(d) ==
    CASE d = "DOWN"  -> Position(0, -1)
      [] d = "UP"    -> Position(0, 1)
      [] d = "LEFT"  -> Position(1, 0)
      [] d = "RIGHT" -> Position(-1, 0)

Opposite(d) ==
    CASE d = "DOWN"  -> "UP"
      [] d = "UP"    -> "DOWN"
      [] d = "LEFT"  -> "RIGHT"
      [] d = "RIGHT" -> "LEFT"

\* The neighbour cell of the blank in direction d, in arrangement g.
Neighbour(g, d) == PositionAdd(CellPosition(BlankIndex(g)), ClaimedOffset(d))

InRange(p) == p.x \in 0..(size - 1) /\ p.y \in 0..(size - 1)

\* A legal single-tile slide: the blank and the tile in the neighbour cell change
\* places.
Slide(g, d) ==
    LET b == BlankIndex(g)
        q == Neighbour(g, d)
        k == q.y * size + q.x
    IN  [c \in Cells |-> IF c = b THEN g[k] ELSE IF c = k THEN g[b] ELSE g[c]]

\* Replaying the inverses of the logged moves, last move first; ok is false as
\* soon as an inverse is not a legal slide.
RECURSIVE ReplayInverse(_, _)
ReplayInverse(g, log) ==
    IF log = <<>> THEN [ok |-> TRUE, grid |-> g]
    ELSE LET d == Opposite(log[Len(log)])
         IN  IF ~InRange(Neighbour(g, d)) THEN [ok |-> FALSE, grid |-> g]
             ELSE ReplayInverse(Slide(g, d), SubSeq(log, 1, Len(log) - 1))

IsMove(step) == step.op \in {"key_move", "shuffle_step"}

----------------------------------------------------------------------------
C2_ShuffleReplaysToSolved ==
    (pc = "shuffling" \/ last.op = "shuffle_done") =>
        LET r == ReplayInverse(grid, shuffle_log)
        IN  r.ok /\ r.grid = correct_order

\* The shuffle has made all its selections, applied at least three of them and
\* left the grid out of order.
C2_Witness ==
    /\ last.op = "shuffle_done"
    /\ Len(shuffle_log) >= 3
    /\ grid # correct_order

\* C3: a poll of the playing loop enters Solved exactly when, index by index,
\* the grid holds the tile of the solved-order snapshot; Solved is entered by
\* no other step.
C3_SolvedExactlyOnMatch ==
    /\ last.op = "playing_poll" =>
          ((pc = "solved_poll") <=> (\A k \in Cells : last.grid[k] = correct_order[k]))
    /\ last.op = "playing_poll" /\ pc # "solved_poll" => pc \in {"playing_sleep", "done"}
    /\ (Phase = "Solved" /\ PhaseOf(last.pc) # "Solved") => last.op = "playing_poll"

\* The player has put a shuffled grid back in order and the next poll has
\* entered Solved.
C3_Witness ==
    /\ last.op = "playing_poll"
    /\ pc = "solved_poll"
    /\ moves > 0
    /\ Len(shuffle_log) % 2 = 1

\* The arrangement g holds, index by index, the tiles of the solved-order snapshot.
MatchesSolvedOrder(g) == \A k \in Cells : g[k] = correct_order[k]

\* The step taken last is a poll of the playing loop that found the cancel latch
\* set by a press made in Playing.
PolledCancelOfPlaying ==
    /\ last.op = "playing_poll"
    /\ last.escape_pressed
    /\ last.pressed_in.escape = "Playing"

C5_IntroIgnoresMoves ==
    /\ Phase = "Intro" =>
          (MatchesSolvedOrder(grid) /\ position = InitialPosition(size))
    /\ (IsMove(last) /\ PhaseOf(last.pc) = "Intro") =>
          (grid = last.grid /\ position = last.position /\ pc = last.pc /\ ~raised)
    /\ (PhaseOf(last.pc) = "Intro" /\ Phase # "Intro") =>
          (last.op = "intro_poll" /\ (last.enter_pressed \/ last.escape_pressed))
    /\ (last.op = "intro_poll" /\ ~last.enter_pressed /\ ~last.escape_pressed) =>
          Phase = "Intro"

\* A second directional callback has been delivered in Intro, for a direction
\* whose neighbour cell is on the board.
C5_Witness ==
    /\ last.op = "key_move"
    /\ last.pc = "intro_sleep"
    /\ InRange(Neighbour(last.grid, last.d))
    /\ moves >= 2

\* C6: a move whose neighbour cell is off the board raises nothing and leaves
\* the grid and all position attributes as they were, gate set or not.
C6_EdgeMoveIsNoOp ==
    (IsMove(last) /\ ~InRange(Neighbour(last.grid, last.d))) =>
        (grid = last.grid /\ position = last.position /\ ~raised /\ pc # "crashed")

\* With the gate set and the blank away from its home cell, a move towards the
\* edge the blank stands at has been absorbed.
C6_Witness ==
    /\ last.op = "key_move"
    /\ last.allow_moving
    /\ BlankIndex(last.grid) # 0
    /\ ~InRange(Neighbour(last.grid, last.d))

\* C7: with the gate set and the neighbour cell on the board, the move puts the
\* blank in that cell and the tile that stood there in the blank's old cell, and
\* every other cell keeps its tile.
C7_MoveExchangesWithNeighbour ==
    (IsMove(last) /\ last.allow_moving /\ InRange(Neighbour(last.grid, last.d))) =>
        LET b == BlankIndex(last.grid)
            q == Neighbour(last.grid, last.d)
            k == q.y * size + q.x
        IN  /\ grid[k] = blank_block
            /\ grid[b] = last.grid[k]
            /\ \A c \in Cells \ {b, k} : grid[c] = last.grid[c]
            /\ CellPosition(BlankIndex(grid)) =
                  PositionAdd(CellPosition(b), ClaimedOffset(last.d))
            /\ ~raised

\* A RIGHT move of the player has been applied: the blank stood in a column
\* other than the first.
C7_Witness ==
    /\ last.op = "key_move"
    /\ last.d = "RIGHT"
    /\ last.allow_moving
    /\ InRange(Neighbour(last.grid, last.d))
    /\ grid # last.grid

IsCancel(step) == step.op \in {"key_escape", "interrupt"}

\* C8: in Solved a cancel (key or interrupt) changes neither the phase nor the
\* place of run(), a poll that finds only the cancel latch set goes back to
\* sleep, and Solved is left only by a poll that found the confirm latch set.
C8_SolvedIgnoresCancel ==
    /\ (IsCancel(last) /\ PhaseOf(last.pc) = "Solved") => pc = last.pc
    /\ (last.op = "solved_poll" /\ ~last.enter_pressed) => pc = "solved_sleep"
    /\ (PhaseOf(last.pc) = "Solved" /\ Phase # "Solved") =>
          (last.op = "solved_poll" /\ last.enter_pressed /\ pc = "done")

\* A poll of the solved loop has found the cancel latch set, the confirm latch
\* not, and has gone back to sleep.
C8_Witness ==
    /\ last.op = "solved_poll"
    /\ last.escape_pressed
    /\ ~last.enter_pressed
    /\ pc = "solved_sleep"

PhaseRank(ph) ==
    CASE ph = "Intro" -> 0
      [] ph = "Shuffling" -> 1
      [] ph = "Playing" -> 2
      [] ph = "Solved" -> 3
      [] ph = "Ended" -> 4

\* C9: a step never takes the phase back; Intro is followed by Shuffling only
\* through a poll that found the confirm latch set; Shuffling can always go on
\* and is followed by Playing only; Playing by Solved or the end; a cancel
\* observed in Intro ends the session with the grid in solved order and no
\* shuffle selection made.
C9_PhasesAdvanceInOrder ==
    /\ PhaseRank(PhaseOf(last.pc)) <= PhaseRank(Phase)
    /\ (PhaseOf(last.pc) = "Intro" /\ Phase # "Intro") =>
          \/ Phase = "Shuffling" /\ last.op = "intro_poll" /\ last.enter_pressed
          \/ Phase = "Ended" /\ last.op = "intro_poll" /\ ~last.enter_pressed
                /\ last.escape_pressed /\ pc = "done"
    /\ Phase = "Shuffling" => (allow_moving /\ ENABLED (ShuffleDone \/ \E k \in 1..Len(move_list) : ShuffleStep(k)))
    /\ PhaseOf(last.pc) = "Shuffling" => Phase \in {"Shuffling", "Playing"}
    /\ (PhaseOf(last.pc) = "Shuffling" /\ Phase = "Playing") =>
          (last.op = "shuffle_done" /\ shuffle_i = ShuffleSelections)
    /\ PhaseOf(last.pc) = "Playing" => Phase \in {"Playing", "Solved", "Ended"}
    /\ (last.op = "intro_poll" /\ pc = "done") =>
          (MatchesSolvedOrder(grid) /\ shuffle_log = <<>> /\ shuffle_i = 0)
    /\ Phase \in {"Intro"} => shuffle_i = 0 /\ shuffle_log = <<>>

\* After directional callbacks in Intro, a poll has observed a cancel and ended
\* the session.
C9_Witness ==
    /\ last.op = "intro_poll"
    /\ last.escape_pressed
    /\ pc = "done"
    /\ moves > 0

\* C10: the moves-allowed gate is clear in every state of Intro and of Solved
\* and set in every state of Shuffling and of Playing.
C10_GateFollowsPhase ==
    /\ Phase \in {"Intro", "Solved"} => ~allow_moving
    /\ Phase \in {"Shuffling", "Playing"} => allow_moving

\* Solved has been reached through moves of the player, and a directional
\* callback has been delivered there.
C10_Witness ==
    /\ Phase = "Solved"
    /\ last.op = "key_move"
    /\ Len(shuffle_log) % 2 = 1
    /\ ~allow_moving

\* C13: swap is its own inverse. After swap(A, B) on any arrangement, for any
\* positions A and B of the board (A = B included), a second swap(A, B) gives
\* back the grid sequence and every position attribute the first one started
\* from; and from every arrangement two swaps of the same pair change nothing.
C13_SwapIsOwnInverse ==
    /\ last.op = "grid_swap" =>
          LET again == swap(grid, position, size, last.d.lhs, last.d.rhs)
          IN  /\ again.grid = last.grid
              /\ again.position = last.position
              /\ ~again.raised
              /\ ~raised
    /\ \A a, b \in {CellPosition(k) : k \in Cells} :
          LET once == swap(grid, position, size, a, b)
              twice == swap(once.grid, once.position, size, a, b)
          IN  twice.grid = grid /\ twice.position = position /\ ~twice.raised

\* A second swap, of two different cells, has been applied to an arrangement
\* that a first swap had taken away from the order of construction.
C13_Witness ==
    /\ last.op = "grid_swap"
    /\ last.d.lhs # last.d.rhs
    /\ last.grid # correct_order
    /\ grid # last.grid
    /\ position # last.position

\* C14: with the gate set, a move that was applied (neighbour cell on the
\* board) followed by the move in the opposite direction gives back the grid
\* sequence and every position attribute; when the first move started from the
\* solved order the solved check holds again after the second; and the same
\* holds for the two moves made from any arrangement reached.
C14_OppositeMoveRestores ==
    /\ (IsMove(last) /\ last.allow_moving /\ InRange(Neighbour(last.grid, last.d))) =>
          LET back == move_blank_block(grid, position, size, TRUE, Opposite(last.d))
          IN  /\ grid # last.grid
              /\ back.grid = last.grid
              /\ back.position = last.position
              /\ ~back.raised
              /\ MatchesSolvedOrder(last.grid) => is_solved(correct_order, back.grid)
    /\ \A d \in Direction :
          InRange(Neighbour(grid, d)) =>
              LET there == move_blank_block(grid, position, size, TRUE, d)
                  back == move_blank_block(there.grid, there.position, size, TRUE,
                                           Opposite(d))
              IN  /\ there.grid # grid
                  /\ back.grid = grid
                  /\ back.position = position
                  /\ ~back.raised
                  /\ is_solved(correct_order, back.grid) = MatchesSolvedOrder(grid)

\* The first move the shuffle applied was made from the solved order, to the
\* left, on the largest board.
C14_Witness ==
    /\ last.op = "shuffle_step"
    /\ last.d = "LEFT"
    /\ MatchesSolvedOrder(last.grid)
    /\ grid # last.grid
    /\ size > 2

\* C15: right after construction, for every board side, the grid holds the
\* blank at index 0, that is in cell (0, 0), and nowhere else; the other cells
\* hold pairwise different value tiles, cell by cell in row-major order the tile
\* that was built for that cell; and the solved-order snapshot holds the same
\* tile as the grid at every index.
C15_ConstructedInOrder ==
    last.op = "init" =>
        /\ size >= 2
        /\ DOMAIN grid = Cells
        /\ grid[0] = blank_block
        /\ get_position(grid, size, blank_block) = Position(0, 0)
        /\ \A k \in Cells \ {0} : grid[k] # blank_block
        /\ Cardinality({grid[k] : k \in Cells \ {0}}) = size * size - 1
        /\ \A k \in Cells \ {0} :
              position[grid[k]] = Position((k % size) * (ScreenWidth \div size),
                                           (k \div size) * (ScreenHeight \div size))
        /\ DOMAIN correct_order = Cells
        /\ \A k \in Cells : correct_order[k] = grid[k]

\* The engine has been constructed for a board of more than two tiles a side
\* and run() has not started.
C15_Witness ==
    /\ last.op = "init"
    /\ pc = "start"
    /\ size > 2
    /\ moves = 0

\* C16: the solved-order snapshot is what it was at construction in every
\* state, and no step changes it, while the shuffle and the player's moves
\* assign the cells of the live list it was copied from.
C16_SnapshotNeverChanges ==
    /\ DOMAIN correct_order = Cells
    /\ \A k \in Cells : correct_order[k] = k
    /\ correct_order = last.correct_order

\* The shuffle has applied a move and then the player another: the live list
\* has been assigned twice at least and differs from the snapshot.
C16_Witness ==
    /\ last.op = "key_move"
    /\ grid # last.grid
    /\ Len(shuffle_log) >= 1
    /\ \E k \in Cells : grid[k] # correct_order[k]
    /\ Phase = "Playing"

\* C17, as stated: the shuffle stops after its fixed number of selections, and
\* the number of moves it applied is strictly less than that number.
C17_AppliedStrictlyFewer ==
    last.op = "shuffle_done" =>
        (shuffle_i = ShuffleSelections /\ Len(shuffle_log) < ShuffleSelections)

\* C17, amended: every selection, applied or absorbed, uses up one iteration;
\* the shuffle stops after its fixed number of selections and makes none
\* afterwards; the number of moves it applied is at most the number of
\* selections made, an absorbed selection being the only one not counted.
C17_AppliedAtMostSelections ==
    /\ last.op = "shuffle_step" =>
          /\ shuffle_i = last.shuffle_i + 1
          /\ Len(shuffle_log) =
                 Len(last.shuffle_log) + (IF grid # last.grid THEN 1 ELSE 0)
          /\ (grid = last.grid) <=> ~InRange(Neighbour(last.grid, last.d))
    /\ Len(shuffle_log) <= shuffle_i
    /\ shuffle_i <= ShuffleSelections
    /\ last.op = "shuffle_done" => shuffle_i = ShuffleSelections
    /\ Phase \in {"Playing", "Solved"} => shuffle_i = ShuffleSelections

\* The shuffle has stopped and every one of its selections was applied.
C17_Witness ==
    /\ last.op = "shuffle_done"
    /\ shuffle_i = ShuffleSelections
    /\ Len(shuffle_log) = ShuffleSelections

\* C18: for every tile, get_position is found and is (i mod N, i div N) for the
\* index i the tile stands at, and the lookup of that position returns the
\* tile; for every position of the board, get_position of the tile the lookup
\* returns is that position.
C18_PositionAndLookupAreInverse ==
    /\ \A t \in Tiles :
          LET i == CHOOSE k \in Cells : grid[k] = t
          IN  /\ ~get_position_raises(grid, size, t)
              /\ get_position(grid, size, t) = Position(i % size, i \div size)
              /\ lookup(grid, size, get_position(grid, size, t)) = t
    /\ \A x, y \in 0..(size - 1) :
          /\ lookup(grid, size, Position(x, y)) = grid[y * size + x]
          /\ get_position(grid, size, lookup(grid, size, Position(x, y))) = Position(x, y)

\* Two swaps have left no tile of the first row of a board of more than two
\* tiles a side in the cell it was built for.
C18_Witness ==
    /\ last.op = "grid_swap"
    /\ moves = 2
    /\ size > 2
    /\ \A k \in 0..(size - 1) : grid[k] # k

\* C19: game_started is the reading of the clock made by the poll that observes
\* the confirm in Intro, before the shuffle makes a selection, and is kept from
\* then on; game_solved is the reading made by the poll that detects the solved
\* order; the congratulations text shows the whole seconds of their difference,
\* and with a clock that never goes back that number is not negative.
C19_ElapsedIsSolvedMinusStarted ==
    /\ (last.op = "intro_poll" /\ Phase = "Shuffling") =>
          (game_started = last.clock /\ shuffle_i = 0 /\ shuffle_log = <<>>)
    /\ Phase = "Intro" => game_started = -1
    /\ Phase \in {"Shuffling", "Playing", "Solved"} =>
          (game_started >= 0 /\ game_started <= clock)
    /\ PhaseOf(last.pc) \in {"Shuffling", "Playing", "Solved"} =>
          game_started = last.game_started
    /\ (last.op = "playing_poll" /\ Phase = "Solved") => game_solved = last.clock
    /\ Phase \in {"Intro", "Shuffling", "Playing"} => game_solved = -1
    /\ Phase = "Solved" =>
          /\ game_started <= game_solved
          /\ game_solved <= clock
          /\ text_box.visible
          /\ text_box.text.kind = "congratulations"
          /\ text_box.text.seconds >= 0
          /\ text_box.text.seconds * TicksPerSecond <= game_solved - game_started
          /\ game_solved - game_started < (text_box.text.seconds + 1) * TicksPerSecond

\* The player has solved the puzzle and the solved order was detected more than
\* a second, less than two, after the confirm was observed: the text shows one
\* second.
C19_Witness ==
    /\ Phase = "Solved"
    /\ moves > 0
    /\ game_solved - game_started > TicksPerSecond
    /\ text_box.text.kind = "congratulations"
    /\ text_box.text.seconds = 1

\* C11: each latch is set exactly while a press of its key has not been
\* answered by a poll that returned true.  A press sets the latch; the poll
\* that finds it set clears it once and returns true, whether one press or
\* several came before the clear, also when a press came between the read and
\* the clear of that poll; a poll that finds the latch clear returns false and
\* leaves it alone, so a press made during such a poll stays for the next one.
C11_LatchAnswersEveryPressOnce ==
    /\ enter_pressed <=> pressed_in.enter # "none"
    /\ escape_pressed <=> pressed_in.escape # "none"
    /\ last.op = "read_enter" =>
          /\ enter_pressed = last.enter_pressed
          /\ last.enter_pressed => pc \in {"intro_clear_enter", "solved_clear_enter"}
          /\ ~last.enter_pressed => pc \in {"intro_read_escape", "solved_sleep"}
    /\ last.op = "read_escape" =>
          /\ escape_pressed = last.escape_pressed
          /\ last.escape_pressed => pc \in {"intro_clear_escape", "playing_clear_escape"}
          /\ ~last.escape_pressed => pc \in {"intro_sleep", "playing_sleep"}
    /\ last.op = "clear_enter" =>
          (last.enter_pressed /\ ~enter_pressed /\ pc \in {"intro_confirmed", "done"})
    /\ last.op = "clear_escape" =>
          (last.escape_pressed /\ ~escape_pressed /\ pc = "done")
    /\ pc \in {"intro_clear_enter", "solved_clear_enter"} => enter_pressed
    /\ pc \in {"intro_clear_escape", "playing_clear_escape"} => escape_pressed

\* In Playing the cancel key was pressed, the poll read the latch set, the
\* interrupt arrived before the poll cleared it, and the poll has cleared it
\* and ended the session.
C11_Witness ==
    /\ last.op = "clear_escape"
    /\ last.d = "interrupt"
    /\ last.pc = "playing_clear_escape"
    /\ ~escape_pressed
    /\ pc = "done"

\* C12: no call of _move_blank_block made by a key callback assigns the grid
\* while the call made by the shuffle stands between its bounds check and the
\* end of its swap.
C12_MovesNeverInterleave ==
    ~(shuffle_frame.st \in PastCheck /\ callback_frame.st \in InSwap)

\* C20: in every state of Solved the grid holds, index by index, the tiles of
\* the solved-order snapshot.
C20_SolvedGridIsSnapshot ==
    Phase = "Solved" => MatchesSolvedOrder(grid)

\* C21: the solved loop is left only on a confirm pressed while run() stood in
\* Solved; a confirm pressed during Playing is not what ends the session.
C21_SolvedExitNeedsConfirmInSolved ==
    (last.op = "solved_poll" /\ pc = "done") => last.pressed_in.enter = "Solved"

\* Whether the step is a call of _move_blank_block that reaches one of its four
\* calls of Grid.swap: the bounds check and the gate both let it pass.
ReachesSwap(step) ==
    /\ IsMove(step)
    /\ ~get_position_raises(step.grid, size, blank_block)
    /\ is_valid_position(size, PositionAdd(get_position(step.grid, size, blank_block),
                                           direction_to_offset(step.d)))
    /\ step.allow_moving

\* The two arguments of that call of Grid.swap.
SwapArguments(step) ==
    LET bp == get_position(step.grid, size, blank_block)
    IN  [lhs |-> bp, rhs |-> PositionAdd(bp, swap_offset(step.d))]

ManhattanDistance(p, q) ==
    (IF p.x >= q.x THEN p.x - q.x ELSE q.x - p.x) +
    (IF p.y >= q.y THEN p.y - q.y ELSE q.y - p.y)

\* C22: every call of Grid.swap made by _move_blank_block has both arguments on
\* the board and at Manhattan distance 1, the first being the blank's cell; the
\* offset of the swap is the offset of the bounds check, for each direction.
C22_SwapArgumentsAreAdjacentCells ==
    /\ \A d \in Direction : swap_offset(d) = direction_to_offset(d)
    /\ ReachesSwap(last) =>
          LET a == SwapArguments(last)
              r == swap(last.grid, last.position, size, a.lhs, a.rhs)
          IN  /\ InRange(a.lhs)
              /\ InRange(a.rhs)
              /\ ManhattanDistance(a.lhs, a.rhs) = 1
              /\ lookup(last.grid, size, a.lhs) = blank_block
              /\ grid = r.grid
              /\ position = r.position
              /\ ~raised

\* On a board of side 3 the LEFT branch has made its call of Grid.swap for a
\* key of the player, after the shuffle has moved the blank twice.
C22_Witness ==
    /\ ReachesSwap(last)
    /\ last.op = "key_move"
    /\ last.d = "LEFT"
    /\ size = 3
    /\ Len(shuffle_log) >= 2
    /\ grid # last.grid

\* The position attribute the tile handed to Grid at index k was built with.
ConstructionAttribute(k) == InitialPosition(size)[InitialGrid(size)[k]]

\* No call of _move_blank_block stands between its first and its last statement.
NoMoveInProgress ==
    shuffle_frame.st = "idle" /\ callback_frame.st = "idle" /\ ~raised

\* C23: whenever no move is in progress, the tile in cell k carries the
\* position attribute the tile of cell k was built with: the attributes stay
\* with the cells, so the attributes in cell order never change.
C23_AttributesStayWithCells ==
    NoMoveInProgress =>
        /\ \A k \in Cells : position[grid[k]] = ConstructionAttribute(k)
        /\ {position[t] : t \in Tiles} = {ConstructionAttribute(k) : k \in Cells}

\* A cancel is pending in a phase whose loop polls the cancel latch.
CancelPending == escape_pressed /\ Phase \in {"Intro", "Playing"} /\ pc \in Running

\* C24: after a cancel press in Intro or Playing the program goes on to the
\* next poll by itself: as long as the cancel is pending some step that needs
\* no input event can be taken.
C24_CancelNeedsNoFurtherInput ==
    CancelPending => ENABLED CursesInternal

\* C25: an intro poll that finds both latches set goes on to the shuffle and
\* leaves the cancel latch set; the latch stays set through the shuffle, and the
\* first playing poll ends the session on it, unless the shuffled grid equals
\* the solved order, in which case Solved is entered.
C25_ConfirmWinsAndCancelIsCarried ==
    /\ (last.op = "intro_poll" /\ last.enter_pressed /\ last.escape_pressed) =>
          (pc = "shuffling" /\ escape_pressed /\ ~enter_pressed /\ allow_moving)
    /\ (pressed_in.escape = "Intro" /\ Phase \in {"Shuffling", "Playing"}) =>
          escape_pressed
    /\ (last.op = "playing_poll" /\ last.pressed_in.escape = "Intro") =>
          /\ last.shuffle_i = ShuffleSelections
          /\ pc = IF is_solved(last.correct_order, last.grid) THEN "solved_poll"
                  ELSE "done"

\* The cancel pressed in Intro together with the confirm has ended the session
\* at the first playing poll, over a grid the shuffle left out of order.
C25_Witness ==
    /\ last.op = "playing_poll"
    /\ last.pressed_in.escape = "Intro"
    /\ last.escape_pressed
    /\ ~is_solved(correct_order, grid)
    /\ moves = 0
    /\ pc = "done"

\* The index in the solved-order snapshot of the tile each cell holds.
SnapshotIndex(co, g) == [k \in Cells |-> ListIndex(co, size * size, g[k])]

\* Whether that assignment is a permutation of the cells.
IsPermutationOfSnapshot(co, g) ==
    {SnapshotIndex(co, g)[k] : k \in Cells} = Cells

\* The number of pairs of cells a permutation puts out of order; its parity is
\* the parity of the permutation.
Inversions(p) ==
    Cardinality({pair \in Cells \X Cells : pair[1] < pair[2] /\ p[pair[1]] > p[pair[2]]})

\* C26: whenever no move is in progress the live grid is a permutation of the
\* solved-order snapshot whose parity is the parity of the Manhattan distance of
\* the blank's cell from cell (0, 0).
C26_ParityFollowsBlank ==
    NoMoveInProgress =>
        /\ IsPermutationOfSnapshot(correct_order, grid)
        /\ Inversions(SnapshotIndex(correct_order, grid)) % 2 =
              ManhattanDistance(get_position(grid, size, blank_block), Position(0, 0)) % 2

\* C27: a playing poll that finds the grid equal to the solved-order snapshot
\* with no key of the player delivered since the start enters Solved, whatever
\* the latches hold: the grid is as the shuffle left it, and the shuffle can
\* leave it in the solved order.
C27_UnchangedShuffleEntersSolved ==
    (/\ last.op = "playing_poll"
     /\ moves = 0
     /\ is_solved(last.correct_order, last.grid)) =>
        /\ last.shuffle_i = ShuffleSelections
        /\ pc = "solved_poll"
        /\ grid = last.grid
        /\ ~allow_moving
        /\ text_box.visible
        /\ text_box.text.kind = "congratulations"

\* The shuffle has applied selections that cancel each other, and the first
\* playing poll has entered Solved with no key of the player delivered.
C27_Witness ==
    /\ last.op = "playing_poll"
    /\ moves = 0
    /\ Len(shuffle_log) >= 2
    /\ is_solved(correct_order, grid)
    /\ Phase = "Solved"

====
